---- MODULE Spec2Model ----
(***************************************************************************)
(* A model of scripts/reverse_hash.rs: the FNV-1 32-bit hash with its      *)
(* continuation entry point, the digit rendering of the inner loop, the    *)
(* brute-force search reverse_hash and the command line driver main.       *)
(*                                                                         *)
(* TLC's integers are 32-bit signed, so the program's u32 and u64 values   *)
(* are kept as little-endian sequences of 16-bit limbs (2 limbs for u32,   *)
(* 4 for u64/usize).  All arithmetic on them is exact at that width.       *)
(***************************************************************************)
EXTENDS Integers, Sequences, FiniteSets, TLC

VARIABLES
    build,      \* "debug" (overflow checks panic) or "release" (they wrap)
    args,       \* std::env::args(): a sequence of strings (sequences of char codes)
    pc,         \* position of the process
    i,          \* main: index into args (0-based, as in the code)
    target_hash,\* main: the parsed u32
    config,     \* main: SearchConfig
    max_specified,
    total_combinations, \* main: the count printed on line 211
    exit_code,  \* -1 while running; 0, 1 (process::exit(1)) or 101 (panic)
    report,     \* main: "none", "found" or "not_found" (lines 215-219)
    partial_hashes, actual_max, total_checks, checked, results, num_buf,
    ci,         \* reverse_hash: 1-based position in partial_hashes
    num,        \* reverse_hash: the inner loop variable
    tested,     \* history: the (position, number) pairs hashed so far
    found,      \* history: the (position, number) pair of each result pushed
    hd,         \* the hash harness: inputs A, B and the two results
    rd          \* the rendering harness: n, W, i, buffer, indices written

mvars == <<build, args, pc, i, target_hash, config, max_specified,
           total_combinations, exit_code, report>>
svars == <<partial_hashes, actual_max, total_checks, checked, results,
           num_buf, ci, num, tested, found>>
vars == <<mvars, svars, hd, rd>>

----------------------------------------------------------------------------
(* Fixed-width unsigned integers as little-endian sequences of limbs.      *)

Base == 2^16

\* The element of a singleton set.  TLC evaluates an operator's argument
\* every time it is used; binding a value as the element of a set
\* evaluates it once.
Only(S) == CHOOSE v \in S : TRUE

U32Zero == <<0, 0>>
U64Zero == <<0, 0, 0, 0>>

\* The value n (0 <= n < 2^31) as a k-limb number.
FromNat(n, k) == [j \in 1..k |-> IF j = 1 THEN n % Base
                                 ELSE IF j = 2 THEN n \div Base ELSE 0]

\* The value of a limb number that fits TLC's integers (below 2^31).
ToNat(x) == IF Len(x) >= 2 THEN x[1] + Base * x[2] ELSE x[1]

RECURSIVE MulCarry(_, _, _)
MulCarry(x, m, j) == IF j = 0 THEN 0
                     ELSE (x[j] * m + MulCarry(x, m, j - 1)) \div Base

\* x * m for a small multiplier m: the wrapped product and the overflow flag.
MulSmall(x, m) ==
    [val |-> [j \in 1..Len(x) |-> (x[j] * m + MulCarry(x, m, j - 1)) % Base],
     ovf |-> MulCarry(x, m, Len(x)) # 0]

RECURSIVE AddCarry(_, _, _)
AddCarry(x, a, j) == IF j = 0 THEN a
                     ELSE (x[j] + AddCarry(x, a, j - 1)) \div Base

\* x + a for a small addend a.
AddSmall(x, a) ==
    [val |-> [j \in 1..Len(x) |-> (x[j] + AddCarry(x, a, j - 1)) % Base],
     ovf |-> AddCarry(x, a, Len(x)) # 0]

RECURSIVE Borrow(_, _, _)
Borrow(x, y, j) == IF j = 0 THEN 0
                   ELSE IF x[j] - y[j] - Borrow(x, y, j - 1) < 0 THEN 1 ELSE 0

\* x - y: the wrapped difference and the underflow flag.
Sub(x, y) ==
    [val |-> [j \in 1..Len(x) |->
                 (x[j] - y[j] - Borrow(x, y, j - 1) + Base) % Base],
     ovf |-> Borrow(x, y, Len(x)) # 0]

RECURSIVE LessFrom(_, _, _)
LessFrom(x, y, j) == IF j = 0 THEN FALSE
                     ELSE IF x[j] # y[j] THEN x[j] < y[j]
                     ELSE LessFrom(x, y, j - 1)

Less(x, y) == LessFrom(x, y, Len(x))

MinOf(x, y) == IF Less(y, x) THEN y ELSE x

RECURSIVE DivRem(_, _)
DivRem(x, j) == IF j > Len(x) THEN 0
                ELSE (DivRem(x, j + 1) * Base + x[j]) % 10

\* n % 10 and n / 10.
Mod10(x) == DivRem(x, 1)
Div10(x) == [j \in 1..Len(x) |-> (DivRem(x, j + 1) * Base + x[j]) \div 10]

RECURSIVE Xor(_, _)
Xor(a, b) == IF a = 0 THEN b
             ELSE IF b = 0 THEN a
             ELSE (((a % 2) + (b % 2)) % 2) + 2 * Xor(a \div 2, b \div 2)

----------------------------------------------------------------------------
(* HashEngine: lines 3-23.                                                 *)

FNV_PRIME == 16777619
FNV_OFFSET == <<40389, 33052>>  \* 2166136261 = 33052 * 2^16 + 40389

\* u32::wrapping_mul by a multiplier below 2^31.
WrappingMul(h, p) ==
    LET p0 == p % Base
        p1 == p \div Base
        lo == h[1] * p0
    IN  <<lo % Base, (h[2] * p0 + h[1] * p1 + lo \div Base) % Base>>

\* hash ^= byte as u32
XorByte(h, byte) == <<Xor(h[1], byte), h[2]>>

\* The loop body shared by both entry points (lines 10-11 and 19-20).
FnvStep(hash, byte) == XorByte(WrappingMul(hash, FNV_PRIME), byte)

\* The hash after the first k bytes of data.
RECURSIVE Fnv1Upto(_, _)
Fnv1Upto(data, k) ==
    IF k = 0 THEN FNV_OFFSET
    ELSE Only({FnvStep(h, data[k]) : h \in {Fnv1Upto(data, k - 1)}})

fnv1_32(data) == Only({Fnv1Upto(d, Len(d)) : d \in {data}})

\* A continuation that forgets the state it was given.
fnv1_continue_restart(hash, data) == fnv1_32(data)

\* The loop of lines 18-21 from byte k on.
RECURSIVE FnvContinueFrom(_, _, _)
FnvContinueFrom(hash, data, k) ==
    IF k > Len(data) THEN hash
    ELSE Only({FnvContinueFrom(h, data, k + 1) : h \in {FnvStep(hash, data[k])}})

fnv1_continue(hash, data) ==
    Only({FnvContinueFrom(h, d, 1) : h \in {hash}, d \in {data}})

----------------------------------------------------------------------------
(* Strings.  A char is its code point, a String a sequence of chars, and   *)
(* the inputs of the model are ASCII apart from one two-byte character.    *)

LowerCase == <<"a", "b", "c", "d", "e", "f", "g", "h", "i", "j", "k", "l", "m",
               "n", "o", "p", "q", "r", "s", "t", "u", "v", "w", "x", "y", "z">>
UpperCase == <<"A", "B", "C", "D", "E", "F", "G", "H", "I", "J", "K", "L", "M",
               "N", "O", "P", "Q", "R", "S", "T", "U", "V", "W", "X", "Y", "Z">>
DigitChar == <<"0", "1", "2", "3", "4", "5", "6", "7", "8", "9">>

\* The code point of a character written as a one-character string.
Ord(c) ==
    IF \E k \in 1..26 : LowerCase[k] = c
      THEN 96 + (CHOOSE k \in 1..26 : LowerCase[k] = c)
    ELSE IF \E k \in 1..26 : UpperCase[k] = c
      THEN 64 + (CHOOSE k \in 1..26 : UpperCase[k] = c)
    ELSE IF \E k \in 1..10 : DigitChar[k] = c
      THEN 47 + (CHOOSE k \in 1..10 : DigitChar[k] = c)
    ELSE IF c = "-" THEN 45
    ELSE IF c = "+" THEN 43
    ELSE 95  \* "_"

\* A string literal, written as a tuple of one-character strings.
Str(t) == [k \in 1..Len(t) |-> Ord(t[k])]

\* char::to_ascii_lowercase (lines 40, 72)
to_ascii_lowercase(c) == IF c \in 65..90 THEN c + 32 ELSE c

\* str::to_lowercase (lines 39, 71), on the strings of the model, whose
\* letters with a case are ASCII.
to_lowercase(s) == [k \in 1..Len(s) |-> to_ascii_lowercase(s[k])]

\* The UTF-8 encoding of a char below U+0800 (String::push, as_bytes).
Utf8(c) == IF c < 128 THEN <<c>> ELSE <<192 + (c \div 64), 128 + (c % 64)>>

\* The bytes of the first k chars of s.
RECURSIVE BytesUpto(_, _)
BytesUpto(s, k) == IF k = 0 THEN <<>> ELSE BytesUpto(s, k - 1) \o Utf8(s[k])

as_bytes(s) == Only({BytesUpto(t, Len(t)) : t \in {s}})

IsDigit(c) == c \in 48..57

\* The digits of ds from position k on, onto the value acc.
RECURSIVE ParseDigits(_, _, _)
ParseDigits(ds, k, acc) ==
    IF k > Len(ds) THEN [ok |-> TRUE, val |-> acc]
    ELSE IF ~IsDigit(ds[k]) THEN [ok |-> FALSE, val |-> acc]
    ELSE Only({IF m.ovf THEN [ok |-> FALSE, val |-> acc]
               ELSE Only({IF a.ovf THEN [ok |-> FALSE, val |-> acc]
                          ELSE ParseDigits(ds, k + 1, a.val) :
                          a \in {AddSmall(m.val, ds[k] - 48)}}) :
               m \in {MulSmall(acc, 10)}})

\* str::parse for an unsigned integer of k limbs (lines 117, 155, 165, 175):
\* an optional "+", then at least one digit, no overflow.
ParseUInt(tok, k) ==
    Only({IF ds = <<>> THEN [ok |-> FALSE, val |-> FromNat(0, k)]
          ELSE ParseDigits(ds, 1, FromNat(0, k)) :
          ds \in {IF tok # <<>> /\ Head(tok) = 43 THEN Tail(tok) ELSE tok}})

IsZero(x) == \A j \in 1..Len(x) : x[j] = 0

\* The decimal digits of x, most significant first, at least one (Display).
RECURSIVE DecDigits(_)
DecDigits(x) ==
    Only({IF IsZero(q) THEN <<48 + Mod10(v)>>
          ELSE Append(DecDigits(q), 48 + Mod10(v)) :
          v \in {x}, q \in {Div10(x)}})

\* format!("{:0width$}", num, width = ...) (lines 70-74): width is a minimum.
FmtPadded(x, width) ==
    Only({IF Len(d) >= width THEN d
          ELSE [k \in 1..width |-> IF k <= width - Len(d) THEN 48
                                   ELSE d[k - (width - Len(d))]] :
          d \in {DecDigits(x)}})

\* The whole format! of lines 70-74.
FormatResult(prefix, ch, n, width) ==
    to_lowercase(prefix) \o <<to_ascii_lowercase(ch)>> \o FmtPadded(n, width)

----------------------------------------------------------------------------
(* CandidateModel: the digit rendering of lines 61-65.  The buffer is      *)
(* indexed from 0, as in the code.                                         *)

\* vec![0u8; digits.max(20)] (line 54)
NewNumBuf(digits) ==
    [k \in 0..((IF digits > 20 THEN digits ELSE 20) - 1) |-> 0]

\* A loop body that forgets to divide.
RenderStepNoDiv(buf, n, idx) ==
    [buf |-> [buf EXCEPT ![idx] = 48 + Mod10(n)], n |-> n]

\* One iteration of the loop of lines 62-65, at index idx.
RenderStep(buf, n, idx) ==
    [buf |-> [buf EXCEPT ![idx] = 48 + Mod10(n)], n |-> Div10(n)]

\* The k iterations at the indices k-1 down to 0.
RECURSIVE RenderFrom(_, _, _)
RenderFrom(buf, n, k) ==
    IF k = 0 THEN buf
    ELSE Only({RenderFrom(s.buf, s.n, k - 1) : s \in {RenderStep(buf, n, k - 1)}})

\* The whole loop: for i in (0..digits).rev()
Render(buf, n, digits) == RenderFrom(buf, n, digits)

\* &num_buf[..digits] (line 67)
Slice(buf, digits) == Only({[k \in 1..digits |-> b[k - 1]] : b \in {buf}})

----------------------------------------------------------------------------
(* SearchSpace and the state of main and reverse_hash.                     *)

One == <<1, 0, 0, 0>>

\* 10u64.pow(e) (lines 45, 197, 201): the wrapped power and whether the
\* multiplication overflowed 64 bits.
RECURSIVE Pow10(_)
Pow10(e) ==
    IF e = 0 THEN [val |-> One, ovf |-> FALSE]
    ELSE Only({Only({[val |-> m.val, ovf |-> p.ovf \/ m.ovf] :
                     m \in {MulSmall(p.val, 10)}}) :
               p \in {Pow10(e - 1)}})

\* config.digits as u32
AsU32(x) == SubSeq(x, 1, 2)

\* The SearchConfig literal of lines 121-128 (max_num is 10_000_000_000).
DefaultConfig ==
    [prefix |-> Str(<<"P", "l", "a", "y", "_">>),
     chars |-> Str(<<"s", "c", "v">>),
     min_num |-> U64Zero,
     max_num |-> <<58368, 21515, 2, 0>>,
     continue_after_match |-> FALSE,
     digits |-> FromNat(10, 4)]

\* args[k], with the code's 0-based index.
Arg(k) == args[k + 1]

\* std::process::exit(1)
ExitWith(code) ==
    /\ pc' = "done"
    /\ exit_code' = code
    /\ UNCHANGED <<build, args, i, target_hash, config, max_specified,
                   total_combinations, report, svars, hd, rd>>

\* A panic (expect on an Err, an arithmetic overflow check): status 101.
Panic == ExitWith(101)

\* Lines 102-115: no hash argument.
Usage ==
    /\ pc = "start"
    /\ Len(args) < 2
    /\ ExitWith(1)

\* Lines 117-132: the hash argument and the default configuration.
ParseHash ==
    /\ pc = "start"
    /\ Len(args) >= 2
    /\ LET r == ParseUInt(Arg(1), 2)
       IN  IF r.ok
           THEN /\ target_hash' = r.val
                /\ config' = DefaultConfig
                /\ max_specified' = FALSE
                /\ i' = 2
                /\ pc' = "opts"
                /\ UNCHANGED <<build, args, total_combinations, exit_code,
                               report, svars, hd, rd>>
           ELSE Panic

\* The value of a value-taking flag, when there is one.
ValueArg == IF i + 1 < Len(args) THEN Arg(i + 1) ELSE <<>>

\* A match arm that takes a value: it stores it and advances, an Err from
\* parse panics, and without a value it exits (lines 136-142).  r is the
\* outcome of storing ValueArg.
OptionStep(name, r, isMax) ==
    /\ pc = "opts"
    /\ i < Len(args)
    /\ Arg(i) = name
    /\ IF i + 1 < Len(args)
       THEN IF r.ok
            THEN /\ config' = r.val
                 /\ max_specified' = (max_specified \/ isMax)
                 /\ i' = i + 2
                 /\ UNCHANGED <<build, args, pc, target_hash,
                                total_combinations, exit_code, report,
                                svars, hd, rd>>
            ELSE Panic
       ELSE ExitWith(1)

OptPrefixName == Str(<<"-", "-", "p", "r", "e", "f", "i", "x">>)
OptCharsName == Str(<<"-", "-", "c", "h", "a", "r", "s">>)
OptDigitsName == Str(<<"-", "-", "d", "i", "g", "i", "t", "s">>)
OptMinName == Str(<<"-", "-", "m", "i", "n">>)
OptMaxName == Str(<<"-", "-", "m", "a", "x">>)
OptContinueName == Str(<<"-", "-", "c", "o", "n", "t", "i", "n", "u", "e">>)
OptionNames == {OptPrefixName, OptCharsName, OptDigitsName, OptMinName,
                OptMaxName, OptContinueName}

\* Lines 135-143.
OptPrefix ==
    OptionStep(OptPrefixName,
               [ok |-> TRUE, val |-> [config EXCEPT !.prefix = ValueArg]],
               FALSE)

\* Lines 144-152.
OptChars ==
    OptionStep(OptCharsName,
               [ok |-> TRUE, val |-> [config EXCEPT !.chars = ValueArg]],
               FALSE)

\* Lines 153-162.
OptDigits ==
    LET r == ParseUInt(ValueArg, 4)
    IN  OptionStep(OptDigitsName,
                   [ok |-> r.ok, val |-> [config EXCEPT !.digits = r.val]],
                   FALSE)

\* Lines 163-172.
OptMin ==
    LET r == ParseUInt(ValueArg, 4)
    IN  OptionStep(OptMinName,
                   [ok |-> r.ok, val |-> [config EXCEPT !.min_num = r.val]],
                   FALSE)

\* Lines 173-183.
OptMax ==
    LET r == ParseUInt(ValueArg, 4)
    IN  OptionStep(OptMaxName,
                   [ok |-> r.ok, val |-> [config EXCEPT !.max_num = r.val]],
                   TRUE)

\* Lines 184-187.
OptContinue ==
    /\ pc = "opts"
    /\ i < Len(args)
    /\ Arg(i) = OptContinueName
    /\ config' = [config EXCEPT !.continue_after_match = TRUE]
    /\ i' = i + 1
    /\ UNCHANGED <<build, args, pc, target_hash, max_specified,
                   total_combinations, exit_code, report, svars, hd, rd>>

\* Lines 188-191.
OptUnknown ==
    /\ pc = "opts"
    /\ i < Len(args)
    /\ Arg(i) \notin OptionNames
    /\ ExitWith(1)

\* Lines 195-211: the default of max_num, the bounds that are printed and
\* the total.  Each subtraction and multiplication is overflow-checked in a
\* debug build and wraps in a release build.
Prepare ==
    /\ pc = "opts"
    /\ i >= Len(args)
    /\ LET p == Pow10(ToNat(AsU32(config.digits)))
           max_num == IF max_specified THEN config.max_num ELSE p.val
           digit_max == p.val
           amax == MinOf(max_num, digit_max)
           s207 == Sub(digit_max, One)
           s208 == Sub(amax, One)
           s210 == Sub(amax, config.min_num)
           m210 == MulSmall(s210.val, Len(config.chars))
       IN  IF build = "debug" /\ (p.ovf \/ s207.ovf \/ s208.ovf
                                  \/ s210.ovf \/ m210.ovf)
           THEN Panic
           ELSE /\ config' = [config EXCEPT !.max_num = max_num]
                /\ total_combinations' = m210.val
                /\ pc' = "call"
                /\ UNCHANGED <<build, args, i, target_hash, max_specified,
                               exit_code, report, svars, hd, rd>>

\* Lines 38-41: the hash of the lowercased prefix and character.
PartialHash(prefix, ch) ==
    fnv1_32(as_bytes(to_lowercase(prefix) \o <<to_ascii_lowercase(ch)>>))

\* Lines 36-54: the prologue of reverse_hash.
SearchSetup ==
    /\ pc = "call"
    /\ LET p == Pow10(ToNat(AsU32(config.digits)))
           amax == MinOf(config.max_num, p.val)
           per == Sub(amax, config.min_num)
           tot == MulSmall(per.val, Len(config.chars))
       IN  IF build = "debug" /\ (p.ovf \/ per.ovf \/ tot.ovf)
           THEN Panic
           ELSE /\ partial_hashes' =
                      [k \in 1..Len(config.chars) |->
                          <<config.chars[k],
                            PartialHash(config.prefix, config.chars[k])>>]
                /\ actual_max' = amax
                /\ total_checks' = tot.val
                /\ checked' = U64Zero
                /\ results' = <<>>
                /\ num_buf' = NewNumBuf(ToNat(config.digits))
                /\ ci' = 1
                /\ num' = config.min_num
                /\ pc' = "loop"
                /\ UNCHANGED <<build, args, i, target_hash, config,
                               max_specified, total_combinations, exit_code,
                               report, tested, found, hd, rd>>

\* Line 69.
Matches(hash, target) == hash = target

\* A search that never stops early, and one that always does.
NeverStops(cfg) == FALSE
AlwaysStops(cfg) == TRUE

\* Line 78.
StopsOnMatch(cfg) == ~cfg.continue_after_match

\* Lines 59-92: one iteration of the inner loop.  The progress line of
\* lines 86-91 writes to stderr and changes no state.  checked and num stay
\* below actual_max <= 2^64 - 1, so their increments cannot overflow.
Iterate ==
    /\ pc = "loop"
    /\ ci <= Len(partial_hashes)
    /\ Less(num, actual_max)
    /\ LET ch == partial_hashes[ci][1]
           partial_hash == partial_hashes[ci][2]
           W == ToNat(config.digits)
           buf == Render(num_buf, num, W)
           hash == fnv1_continue(partial_hash, Slice(buf, W))
           hit == Matches(hash, target_hash)
       IN  /\ num_buf' = buf
           /\ tested' = Append(tested, <<ci, num>>)
           /\ results' = IF hit
                         THEN Append(results,
                                     FormatResult(config.prefix, ch, num, W))
                         ELSE results
           /\ found' = IF hit THEN Append(found, <<ci, num>>) ELSE found
           /\ IF hit /\ StopsOnMatch(config)
              THEN /\ pc' = "returned"
                   /\ UNCHANGED <<checked, num>>
              ELSE /\ checked' = AddSmall(checked, 1).val
                   /\ num' = AddSmall(num, 1).val
                   /\ pc' = pc
    /\ UNCHANGED <<build, args, i, target_hash, config, max_specified,
                   total_combinations, exit_code, report, partial_hashes,
                   actual_max, total_checks, ci, hd, rd>>

\* Lines 57, 59: the inner range is exhausted, the outer loop advances.
NextChar ==
    /\ pc = "loop"
    /\ ci <= Len(partial_hashes)
    /\ ~Less(num, actual_max)
    /\ ci' = ci + 1
    /\ num' = config.min_num
    /\ UNCHANGED <<mvars, partial_hashes, actual_max, total_checks, checked,
                   results, num_buf, tested, found, hd, rd>>

\* Lines 95-96: both loops are done.
SearchComplete ==
    /\ pc = "loop"
    /\ ci > Len(partial_hashes)
    /\ pc' = "returned"
    /\ UNCHANGED <<build, args, i, target_hash, config, max_specified,
                   total_combinations, exit_code, report, svars, hd, rd>>

\* Lines 213-219: main reports the result and returns.
Report ==
    /\ pc = "returned"
    /\ report' = IF results = <<>> THEN "not_found" ELSE "found"
    /\ exit_code' = 0
    /\ pc' = "done"
    /\ UNCHANGED <<build, args, i, target_hash, config, max_specified,
                   total_combinations, svars, hd, rd>>

----------------------------------------------------------------------------
(* The argument lists the model runs the program on.                       *)

MaxNum == 3

\* The decimal string of a small number.
Dec(n) == DecDigits(FromNat(n, 4))

Prog == Str(<<"r", "h">>)
Bogus == Str(<<"-", "-", "a", "l", "l">>)
NotANumber == Str(<<"x">>)

\* Candidates whose hashes are searched for: "play_s" followed by the
\* number 1 at a width of 0, 1, 2, 10 and 20 digits.
TargetCandidates ==
    {Str(<<"p", "l", "a", "y", "_", "s">>) \o FmtPadded(One, w) : w \in {1, 2, 10, 20}}
        \cup {Str(<<"p", "l", "a", "y", "_", "s">>)}

\* The hash argument: the hash of a target candidate, or 0.
HashArgs == {DecDigits(fnv1_32(as_bytes(c))) : c \in TargetCandidates}
                \cup {Dec(0)}

PrefixOpts == {<<>>, <<OptPrefixName, Str(<<"P", "L", "A", "Y", "_">>)>>}
CharsOpts == {<<>>, <<OptCharsName, Str(<<"S", "s">>)>>}
SmallDigitsOpts == {<<OptDigitsName, Dec(0)>>, <<OptDigitsName, Dec(1)>>}
DigitsOpts == SmallDigitsOpts
                  \cup {<<>>, <<OptDigitsName, Dec(2)>>, <<OptDigitsName, Dec(20)>>}
MinOpts == {<<>>} \cup {<<OptMinName, Dec(n)>> : n \in 0..MaxNum}
MaxOpts == {<<>>} \cup {<<OptMaxName, Dec(n)>> : n \in 0..MaxNum}
ContinueOpts == {<<>>, <<OptContinueName>>}

\* Well-formed lists.  A list without --max has a digit width of 0 or 1, so
\* that every search of the model is short.
MaxOptsFor(d) == IF d \in SmallDigitsOpts THEN MaxOpts ELSE MaxOpts \ {<<>>}

SearchArgs ==
    UNION {{<<Prog, h>> \o p \o c \o d \o mn \o mx \o k :
               h \in HashArgs, p \in PrefixOpts, c \in CharsOpts,
               mn \in MinOpts, mx \in MaxOptsFor(d), k \in ContinueOpts} :
           d \in DigitsOpts}

\* What makes a list malformed: an unknown option, a flag without its
\* value, a value that is no number.
BadTails ==
    {<<Bogus>>, <<OptPrefixName>>, <<OptCharsName>>, <<OptDigitsName>>,
     <<OptMinName>>, <<OptMaxName>>, <<OptDigitsName, NotANumber>>,
     <<OptMinName, NotANumber>>, <<OptMaxName, NotANumber>>}

MalformedArgs ==
    {<<Prog>>, <<Prog, NotANumber>>, <<Prog, OptContinueName>>}
        \cup {<<Prog, Dec(0)>> \o o \o t :
                 o \in {<<>>, <<OptContinueName>>, <<OptMinName, Dec(1)>>},
                 t \in BadTails}

ArgLists == SearchArgs \cup MalformedArgs

HdIdle == [A |-> <<>>, B |-> <<>>, cont |-> U32Zero, whole |-> U32Zero,
           done |-> FALSE]
RdIdle == [n |-> U64Zero, W |-> 0, i |-> 0, cur |-> U64Zero,
           buf |-> NewNumBuf(0), written |-> {}, done |-> FALSE]

Init ==
    /\ build \in {"debug", "release"}
    /\ args \in ArgLists
    /\ pc = "start"
    /\ i = 0
    /\ target_hash = U32Zero
    /\ config = DefaultConfig
    /\ max_specified = FALSE
    /\ total_combinations = U64Zero
    /\ exit_code = -1
    /\ report = "none"
    /\ partial_hashes = <<>>
    /\ actual_max = U64Zero
    /\ total_checks = U64Zero
    /\ checked = U64Zero
    /\ results = <<>>
    /\ num_buf = NewNumBuf(0)
    /\ ci = 0
    /\ num = U64Zero
    /\ tested = <<>>
    /\ found = <<>>
    /\ hd = HdIdle
    /\ rd = RdIdle

Next ==
    \/ Usage
    \/ ParseHash
    \/ OptPrefix
    \/ OptChars
    \/ OptDigits
    \/ OptMin
    \/ OptMax
    \/ OptContinue
    \/ OptUnknown
    \/ Prepare
    \/ SearchSetup
    \/ Iterate
    \/ NextChar
    \/ SearchComplete
    \/ Report

Spec == Init /\ [][Next]_vars

----------------------------------------------------------------------------
(* The hash harness: both entry points applied to byte strings A and B.    *)

MaxLen == 2

ByteSamples == {0, 49, 97, 255}

ByteSeqs == UNION {[1..n -> ByteSamples] : n \in 0..MaxLen}

InitHash ==
    /\ hd \in [A : ByteSeqs, B : ByteSeqs, cont : {U32Zero},
               whole : {U32Zero}, done : {FALSE}]
    /\ rd = RdIdle
    /\ build = "release"
    /\ args = <<Prog>>
    /\ pc = "harness"
    /\ i = 0
    /\ target_hash = U32Zero
    /\ config = DefaultConfig
    /\ max_specified = FALSE
    /\ total_combinations = U64Zero
    /\ exit_code = -1
    /\ report = "none"
    /\ partial_hashes = <<>>
    /\ actual_max = U64Zero
    /\ total_checks = U64Zero
    /\ checked = U64Zero
    /\ results = <<>>
    /\ num_buf = NewNumBuf(0)
    /\ ci = 0
    /\ num = U64Zero
    /\ tested = <<>>
    /\ found = <<>>

\* fnv1_continue on the state fnv1_32 left after A, and fnv1_32 on A ++ B.
HashBoth ==
    /\ ~hd.done
    /\ hd' = [hd EXCEPT !.cont = fnv1_continue(fnv1_32(hd.A), hd.B),
                        !.whole = fnv1_32(hd.A \o hd.B),
                        !.done = TRUE]
    /\ UNCHANGED <<mvars, svars, rd>>

NextHash == HashBoth

SpecHash == InitHash /\ [][NextHash]_vars

----------------------------------------------------------------------------
(* The rendering harness: the loop of lines 62-65, one iteration a step.   *)

MaxRenderN == 12
MaxWidth == 4

RenderNumbers == (0..MaxRenderN) \cup {12345, 987654321}
RenderWidths == (1..MaxWidth) \cup {20, 21}

InitRender ==
    /\ \E n \in RenderNumbers, W \in RenderWidths :
          rd = [n |-> FromNat(n, 4), W |-> W, i |-> W, cur |-> FromNat(n, 4),
                buf |-> NewNumBuf(W), written |-> {}, done |-> FALSE]
    /\ hd = HdIdle
    /\ build = "release"
    /\ args = <<Prog>>
    /\ pc = "harness"
    /\ i = 0
    /\ target_hash = U32Zero
    /\ config = DefaultConfig
    /\ max_specified = FALSE
    /\ total_combinations = U64Zero
    /\ exit_code = -1
    /\ report = "none"
    /\ partial_hashes = <<>>
    /\ actual_max = U64Zero
    /\ total_checks = U64Zero
    /\ checked = U64Zero
    /\ results = <<>>
    /\ num_buf = NewNumBuf(0)
    /\ ci = 0
    /\ num = U64Zero
    /\ tested = <<>>
    /\ found = <<>>

\* One iteration of for i in (0..digits).rev(): the index is rd.i - 1.
RenderDigit ==
    /\ rd.i > 0
    /\ LET s == RenderStep(rd.buf, rd.cur, rd.i - 1)
       IN  rd' = [rd EXCEPT !.buf = s.buf,
                            !.cur = s.n,
                            !.i = rd.i - 1,
                            !.written = rd.written \cup {rd.i - 1},
                            !.done = (rd.i = 1)]
    /\ UNCHANGED <<mvars, svars, hd>>

NextRender == RenderDigit

SpecRender == InitRender /\ [][NextRender]_vars

----------------------------------------------------------------------------
(* What the claims speak of, stated on mathematical integers.              *)

\* The decimal digit of n at 10^e.  The numbers of the model are below
\* 2^31 < 10^10, so the digits from 10^10 on are 0.
Digit(n, e) == IF e > 9 THEN 0 ELSE (n \div (10^e)) % 10

\* The ASCII digits of n mod 10^W, most significant first, over W bytes.
ZeroPadded(n, W) == [k \in 1..W |-> 48 + Digit(n, W - k)]

Width == ToNat(config.digits)
MinN == ToNat(config.min_num)

\* min(configuredMax, 10^digits) as a mathematical integer.  A power of ten
\* that does not fit 64 bits is above every configured maximum.
ConfiguredMax == IF max_specified THEN config.max_num ELSE Pow10(Width).val
EffectiveMax == IF Pow10(Width).ovf THEN ConfiguredMax
                ELSE MinOf(ConfiguredMax, Pow10(Width).val)
EffMaxN == ToNat(EffectiveMax)

\* Every option has been parsed.
ParsedAll == Len(args) >= 2 /\ i = Len(args) /\ pc # "start"

\* The search has been set up, and reverse_hash has returned.
Searching == pc \in {"loop", "returned"} \/ (pc = "done" /\ exit_code = 0)
Returned == pc = "returned" \/ (pc = "done" /\ exit_code = 0)

\* The candidate space: (alphabet position, number) pairs.
Space == (1..Len(config.chars)) \X (MinN..(EffMaxN - 1))

\* The bytes of a candidate: the lowercased prefix and character, then the
\* number zero-padded to the width.
CandidateBytes(c) ==
    as_bytes(to_lowercase(config.prefix)
                 \o <<to_ascii_lowercase(config.chars[c[1]])>>)
        \o ZeroPadded(c[2], Width)

MatchSet == {c \in Space : fnv1_32(CandidateBytes(c)) = target_hash}

\* Character-major, numeric-ascending order.
Before(a, b) == a[1] < b[1] \/ (a[1] = b[1] /\ a[2] < b[2])

PairNat(q) == <<q[1], ToNat(q[2])>>
FoundN == [k \in 1..Len(found) |-> PairNat(found[k])]
TestedN == [k \in 1..Len(tested) |-> PairNat(tested[k])]

----------------------------------------------------------------------------
(* The claims.                                                             *)

\* C1: for all byte sequences A and B (either may be empty),
\* fnv1_continue(fnv1_32(A), B) equals fnv1_32(A ++ B), every
\* multiplication being taken modulo 2^32.
C1_ContinueEqualsWhole == hd.done => hd.cont = hd.whole

\* C1's case: both parts are non-empty and the two hashes have been taken.
C1_Witness == hd.done /\ Len(hd.A) = MaxLen /\ Len(hd.B) = MaxLen
                 /\ hd.cont = hd.whole /\ hd.cont # fnv1_32(hd.B)

\* C2: without --continue reverse_hash returns at most one record.  If a
\* candidate of the space hashes to the target, the result is the one
\* matching candidate that is first in character-major, numeric-ascending
\* order and no candidate after it was tested; otherwise the result is
\* empty.
C2_FirstMatchOnly ==
    (Returned /\ ~config.continue_after_match) =>
        /\ Len(results) <= 1
        /\ Len(results) = Len(found)
        /\ IF MatchSet = {}
           THEN found = <<>>
           ELSE /\ Len(found) = 1
                /\ FoundN[1] \in MatchSet
                /\ \A c \in MatchSet : c = FoundN[1] \/ Before(FoundN[1], c)
                /\ \A k \in 1..Len(tested) : ~Before(FoundN[1], TestedN[k])

\* C2's case: several candidates match, the first one alone is returned.
C2_Witness ==
    /\ Returned
    /\ ~config.continue_after_match
    /\ Len(results) = 1
    /\ Cardinality(MatchSet) >= 2

\* C3: with --continue reverse_hash returns every candidate of the space
\* whose hash is the target and nothing else, one record for each
\* (alphabet position, number) pair, ordered by alphabet position and then
\* by ascending number.
C3_AllMatchesInOrder ==
    (Returned /\ config.continue_after_match) =>
        /\ Len(results) = Len(found)
        /\ {FoundN[k] : k \in 1..Len(found)} = MatchSet
        /\ \A j, k \in 1..Len(found) : j < k => Before(FoundN[j], FoundN[k])

\* C3's case: two candidates match and both are returned.
C3_Witness ==
    /\ Returned
    /\ config.continue_after_match
    /\ Len(results) >= 2
    /\ Cardinality(MatchSet) = Len(results)

\* C4: effectiveMax = min(configuredMax, 10^digits) never exceeds
\* 10^digits, no number >= 10^digits is enumerated, and the total that is
\* computed and reported is chars.length * (effectiveMax - min) as a
\* mathematical integer, not as a wrapped 64-bit value.
C4_TotalIsExact ==
    (pc \in {"call", "loop", "returned"}) =>
        /\ Pow10(Width).ovf \/ ~Less(Pow10(Width).val, EffectiveMax)
        /\ \A k \in 1..Len(tested) :
              Pow10(Width).ovf \/ Less(tested[k][2], Pow10(Width).val)
        /\ EffMaxN >= MinN
        /\ total_combinations
              = FromNat(Len(config.chars) * (EffMaxN - MinN), 4)

\* C5: an empty effective range (effectiveMax <= min) is a valid degenerate
\* run: the total is zero, no candidate is checked, the result is empty,
\* and neither main nor reverse_hash crashes or underflows.
C5_EmptyRangeIsDegenerate ==
    (pc = "done" /\ ParsedAll /\ ~Pow10(Width).ovf /\ EffMaxN <= MinN) =>
        /\ exit_code = 0
        /\ total_combinations = U64Zero
        /\ total_checks = U64Zero
        /\ checked = U64Zero
        /\ tested = <<>>
        /\ results = <<>>

\* C6: a digit width W whose 10^W (or whose total) does not fit unsigned
\* 64-bit arithmetic is rejected as a configuration error before the search
\* starts; no run proceeds with a wrapped 10^W.
C6_OverflowRejected ==
    (ParsedAll /\ Pow10(Width).ovf) =>
        /\ pc \notin {"call", "loop", "returned"}
        /\ (pc = "done" => exit_code # 0 /\ tested = <<>>)

\* C7: for every n and every W >= 1, after the rendering the first W bytes
\* of the buffer are the ASCII digits of n mod 10^W, most significant
\* first, zero-padded to W bytes; no byte outside 0..W-1 is written and
\* every index written lies within the capacity max(W, 20).
C7_RenderedDigits ==
    /\ DOMAIN rd.buf = 0..((IF rd.W > 20 THEN rd.W ELSE 20) - 1)
    /\ rd.written \subseteq 0..(rd.W - 1)
    /\ rd.written \subseteq DOMAIN rd.buf
    /\ \A k \in DOMAIN rd.buf \ rd.written : rd.buf[k] = 0
    /\ rd.done =>
          /\ Slice(rd.buf, rd.W) = ZeroPadded(ToNat(rd.n), rd.W)
          /\ rd.buf = Render(NewNumBuf(rd.W), rd.n, rd.W)

\* C7's case: 12345 rendered at width 4 is "2345".
C7_Witness ==
    /\ rd.done
    /\ rd.n = FromNat(12345, 4)
    /\ rd.W = 4
    /\ Slice(rd.buf, 4) = Str(<<"2", "3", "4", "5">>)
    /\ rd.written = 0..3

\* C8: the search terminates; without an early stop the inner loop body
\* runs exactly totalCandidates times and checked equals totalCandidates at
\* completion; checked never decreases and never exceeds totalCandidates.
C8_CheckedReachesTotal ==
    /\ Searching => ~Less(total_checks, checked)
    /\ (Returned /\ (config.continue_after_match \/ found = <<>>)) =>
          /\ checked = total_checks
          /\ Len(tested) = ToNat(checked)

IsNumeric(tok) == tok # <<>> /\ \A k \in 1..Len(tok) : IsDigit(tok[k])

\* The options from position k on are known, and each flag that takes a
\* value has one, a number where a number is asked for.
RECURSIVE WellFormedFrom(_, _)
WellFormedFrom(a, k) ==
    IF k > Len(a) THEN TRUE
    ELSE IF a[k] = OptContinueName THEN WellFormedFrom(a, k + 1)
    ELSE IF a[k] \in {OptPrefixName, OptCharsName}
      THEN k + 1 <= Len(a) /\ WellFormedFrom(a, k + 2)
    ELSE IF a[k] \in {OptDigitsName, OptMinName, OptMaxName}
      THEN k + 1 <= Len(a) /\ IsNumeric(a[k + 1]) /\ WellFormedFrom(a, k + 2)
    ELSE FALSE

WellFormed(a) == Len(a) >= 2 /\ IsNumeric(a[2]) /\ WellFormedFrom(a, 3)

\* C9: the exit status depends on the validity of the input alone: non-zero,
\* before any candidate is checked, for a missing or non-numeric hash, a
\* non-numeric --digits/--min/--max, a flag without its value or an unknown
\* option; 0 for every well-formed list, an empty result being reported as
\* not found.
C9_ExitStatus ==
    pc = "done" =>
        /\ exit_code = 0 <=> WellFormed(args)
        /\ exit_code # 0 => tested = <<>>
        /\ (exit_code = 0 /\ results = <<>>) => report = "not_found"

\* C10: every string returned is sound: its bytes are the bytes that were
\* hashed for its candidate, so its fnv1_32 is the target; the formatted
\* number has exactly W digits and agrees with the digit buffer.
C10_ResultsSound ==
    \A k \in 1..Len(results) :
        /\ fnv1_32(as_bytes(results[k])) = target_hash
        /\ results[k] = to_lowercase(config.prefix)
                           \o <<to_ascii_lowercase(config.chars[found[k][1]])>>
                           \o ZeroPadded(ToNat(found[k][2]), Width)

====
